---- MODULE Spec2Model ----
(***************************************************************************)
(* HikingMap: the hiking companion component (the complete version of the  *)
(* component, with waypoints, trail recording and trail import).           *)
(*                                                                         *)
(* React state (useState) and refs (useRef) are the variables.  A handler  *)
(* invoked from the rendered view reads the state of the latest render,    *)
(* so it reads the variables.  The two callbacks handed to                 *)
(* navigator.geolocation.watchPosition are created once, inside            *)
(* startTracking, and keep the state values of the render in which         *)
(* startTracking ran: each open watch carries those captured values.       *)
(* Refs (map, userMarker, trailSource) and functional state updates        *)
(* (setCurrentTrail(prev => ...)) always act on the current value.         *)
(*                                                                         *)
(* The handlers are modelled as the component defines them: a handler's    *)
(* guard is the handler's own conditions, not the menu entry that          *)
(* happens to call it.                                                     *)
(***************************************************************************)
EXTENDS Integers, Sequences, FiniteSets, Bags, TLC

\* ------------------------------------------------------------------ bounds
\* wall-clock readings (Date.now()) range over 0..MaxClock
MaxClock == 1
\* number of geolocation watches open at the same time
MaxWatches == 2
\* number of points in the recording buffer
MaxTrail == 2
\* number of recorded trails
MaxRecorded == 1
\* number of waypoints
MaxWaypoints == 2
\* number of imported trails
MaxImported == 2
\* number of file reads in flight
MaxReads == 2
MaxMarkers == 2
MaxDownloads == 1
MaxTrkpts == 3
MaxPlacemarks == 2
MaxLineTokens == 2
MaxGxCoords == 1

\* ------------------------------------------------------------- values
\* null / undefined in a slot that holds an object, an id or a list
Null == <<>>
\* null / undefined in a slot that holds a number
NoNumber == -1

\* toast.success / toast.error: the message and the number it interpolates
Toast(msg, n) == [msg |-> msg, n |-> n]
NoToast == Toast("", 0)

\* coordinates the position source reports: <<latitude, longitude>>
Coords == {<<10, 20>>, <<11, 21>>}

\* GeolocationCoordinates.heading: null when the device cannot tell
RawHeadings == {NoNumber, 0, 90}

\* fixes delivered by the position source
Fixes ==
  { [latitude |-> c[1], longitude |-> c[2], accuracy |-> 5, heading |-> h] :
      c \in Coords, h \in RawHeadings }

\* fixes without heading information
PlainFixes == { f \in Fixes : f.heading = NoNumber }

\* GeolocationPositionError.code
PERMISSION_DENIED == "PERMISSION_DENIED"
POSITION_UNAVAILABLE == "POSITION_UNAVAILABLE"
TIMEOUT == "TIMEOUT"
ErrorCodes == {PERMISSION_DENIED, POSITION_UNAVAILABLE, TIMEOUT}
\* `GPS error: ${error.message}`
GpsError(code) == CASE code = PERMISSION_DENIED -> "GPS error: PERMISSION_DENIED"
                    [] code = POSITION_UNAVAILABLE -> "GPS error: POSITION_UNAVAILABLE"
                    [] code = TIMEOUT -> "GPS error: TIMEOUT"

VARIABLES
  geolocation,      \* navigator.geolocation is available
  mounted,          \* the component is mounted
  now,              \* the wall clock, Date.now()
  map,              \* map.current is a live mapboxgl.Map
  mapStyle,         \* 'street' | 'satellite'
  mapCenter,        \* camera of the live map: <<lng, lat>>
  mapZoom,
  mapBearing,
  currentPosition,  \* Position | null
  isTracking,
  trackUp,
  isRecordingTrail,
  currentTrail,     \* the recording buffer: TrailPoint[]
  recordedTrails,   \* Trail[]
  importedTrails,   \* Trail[]
  waypoints,        \* Waypoint[]
  selectedWaypoint,
  selectedTrail,
  userMarker,       \* userMarker.current
  waypointMarkers,  \* waypointMarkers.current
  trailSource,      \* trailSource.current: id of the current-trail source
  trailData,        \* geometry of the 'current-trail-line' layer on the live map
  selectedTrailLayer, \* the 'selected-trail-line' layer on the live map
  downloads,        \* the files handed to the browser for download
  watches,          \* open geolocation watches: a bag of the closures they hold
  reads,            \* FileReader reads in flight: a bag of [file, fileExtension]
  toast             \* what the latest handler reported through toast

mapVars == <<map, mapStyle, mapCenter, mapZoom, mapBearing>>
trailVars == <<isRecordingTrail, currentTrail, recordedTrails, importedTrails, selectedTrail, reads>>
waypointVars == <<waypoints, selectedWaypoint, waypointMarkers>>
renderVars == <<userMarker, trailSource, trailData, selectedTrailLayer, downloads>>
trackVars == <<geolocation, mounted, currentPosition, isTracking, trackUp, watches>>

vars == <<now, mapVars, trailVars, waypointVars, renderVars, trackVars, toast>>

\* ------------------------------------------------------------ geodesy
\* R * c of the haversine formula, in whole metres, tabulated for the
\* coordinates of the model and for (0,0), (0,20), (10,0) (R = 6371e3)
getDistanceBetweenPoints(lat1, lon1, lat2, lon2) ==
  LET a == <<lat1, lon1>>
      b == <<lat2, lon2>>
      pair == {a, b}
  IN  CASE a = b -> 0
        [] pair = {<<10, 20>>, <<11, 21>>} -> 155941
        [] pair = {<<10, 20>>, <<20, 10>>} -> 1544758
        [] pair = {<<10, 20>>, <<21, 11>>} -> 1556409
        [] pair = {<<10, 20>>, <<0, 0>>} -> 2476171
        [] pair = {<<10, 20>>, <<0, 20>>} -> 1111949
        [] pair = {<<10, 20>>, <<10, 0>>} -> 2189773
        [] pair = {<<11, 21>>, <<20, 10>>} -> 1544966
        [] pair = {<<11, 21>>, <<21, 11>>} -> 1541130
        [] pair = {<<11, 21>>, <<0, 0>>} -> 2623163
        [] pair = {<<11, 21>>, <<0, 20>>} -> 1228126
        [] pair = {<<11, 21>>, <<10, 0>>} -> 2298219
        [] pair = {<<20, 10>>, <<21, 11>>} -> 152354
        [] pair = {<<20, 10>>, <<0, 0>>} -> 2476171
        [] pair = {<<20, 10>>, <<0, 20>>} -> 2476171
        [] pair = {<<20, 10>>, <<10, 0>>} -> 1544758
        [] pair = {<<21, 11>>, <<0, 0>>} -> 2623163
        [] pair = {<<21, 11>>, <<0, 20>>} -> 2531570
        [] pair = {<<21, 11>>, <<10, 0>>} -> 1696983
        [] pair = {<<0, 0>>, <<0, 20>>} -> 2223899
        [] pair = {<<0, 0>>, <<10, 0>>} -> 1111949
        [] pair = {<<0, 20>>, <<10, 0>>} -> 2476171

\* the loop stops one pair early
RECURSIVE calculateTrailDistanceSkipsLast(_)
calculateTrailDistanceSkipsLast(points) ==
  IF Len(points) < 3 THEN 0
  ELSE calculateTrailDistanceSkipsLast(SubSeq(points, 1, Len(points) - 1))
       + getDistanceBetweenPoints(points[Len(points) - 2].latitude,
                                  points[Len(points) - 2].longitude,
                                  points[Len(points) - 1].latitude,
                                  points[Len(points) - 1].longitude)

RECURSIVE calculateTrailDistance(_)
calculateTrailDistance(points) ==
  IF Len(points) < 2 THEN 0
  ELSE calculateTrailDistance(SubSeq(points, 1, Len(points) - 1))
       + getDistanceBetweenPoints(points[Len(points) - 1].latitude,
                                  points[Len(points) - 1].longitude,
                                  points[Len(points)].latitude,
                                  points[Len(points)].longitude)

\* points.map(p => [p.longitude, p.latitude])
Coordinates(points) ==
  [i \in 1..Len(points) |-> <<points[i].longitude, points[i].latitude>>]

\* ----------------------------------------------------------------- Init
Init ==
  /\ geolocation \in BOOLEAN
  /\ mounted = TRUE
  /\ now = 0
  /\ map = FALSE
  /\ mapStyle = "street"
  /\ mapCenter = Null
  /\ mapZoom = NoNumber
  /\ mapBearing = NoNumber
  /\ currentPosition = Null
  /\ isTracking = FALSE
  /\ trackUp = FALSE
  /\ isRecordingTrail = FALSE
  /\ currentTrail = <<>>
  /\ recordedTrails = <<>>
  /\ importedTrails = <<>>
  /\ waypoints = <<>>
  /\ selectedWaypoint = Null
  /\ selectedTrail = Null
  /\ userMarker = Null
  /\ waypointMarkers = <<>>
  /\ trailSource = Null
  /\ trailData = Null
  /\ selectedTrailLayer = Null
  /\ downloads = <<>>
  /\ watches = EmptyBag
  /\ reads = EmptyBag
  /\ toast = NoToast

\* the wall clock advances between handlers
Tick ==
  /\ now < MaxClock
  /\ now' = now + 1
  /\ UNCHANGED <<mapVars, trailVars, waypointVars, renderVars, trackVars, toast>>

\* ------------------------------------------------------- map lifecycle
\* center: [-74.006, 40.7128], in whole degrees like the fixes of the model
DefaultCenter == <<-74, 41>>
DefaultZoom == 13
TrackingZoom == 16

\* a marker handle whose element went away with the map it was added to
Detached(marker) == [marker EXCEPT !.onMap = FALSE]

\* setMapStyle(style), and the effect keyed on [mapboxToken, mapStyle]: the
\* cleanup of the previous run removes the old map, the new run builds a new
\* one.  The token screen has been passed (the token is set, the container is
\* rendered); the effect has not run since, so the first map is built by the
\* first change of style.
SetMapStyle(style) ==
  /\ style # mapStyle
  /\ mapStyle' = style
  /\ map' = TRUE
  /\ mapCenter' = DefaultCenter
  /\ mapZoom' = DefaultZoom
  /\ mapBearing' = 0
  /\ trailData' = Null
  /\ selectedTrailLayer' = Null
  /\ userMarker' = IF userMarker = Null THEN Null ELSE Detached(userMarker)
  /\ waypointMarkers' = [i \in 1..Len(waypointMarkers) |-> Detached(waypointMarkers[i])]
  /\ toast' = Toast("Map initialized! Ready for hiking.", 0)
  /\ UNCHANGED <<now, trailVars, waypoints, selectedWaypoint, trailSource, downloads, trackVars>>

\* the component is unmounted: the cleanup of the effect's latest run removes
\* the map it built, and with it the layers and the marker elements.  Nothing
\* else is registered for cleanup: map.current keeps the removed map, the refs
\* keep their handles, and the watches stay open.
Unmount ==
  /\ mounted
  /\ mounted' = FALSE
  /\ IF map
     THEN /\ trailData' = Null
          /\ selectedTrailLayer' = Null
          /\ userMarker' = IF userMarker = Null THEN Null ELSE Detached(userMarker)
          /\ waypointMarkers' = [i \in 1..Len(waypointMarkers) |-> Detached(waypointMarkers[i])]
     ELSE UNCHANGED <<trailData, selectedTrailLayer, userMarker, waypointMarkers>>
  /\ toast' = NoToast
  /\ UNCHANGED <<now, mapVars, trailVars, waypoints, selectedWaypoint, trailSource, downloads,
                 geolocation, currentPosition, isTracking, trackUp, watches>>

\* ------------------------------------------------------------ tracking
\* the render state the watchPosition callbacks close over.  The success
\* callback reads currentTrail only where its isRecordingTrail is true, and
\* only to hand [...currentTrail, trailPoint] to updateTrailOnMap, which reads
\* the length and each point's longitude and latitude.
Closure == [isRecordingTrail |-> isRecordingTrail,
            currentTrail |-> IF isRecordingTrail THEN Coordinates(currentTrail) ELSE <<>>,
            trackUp |-> trackUp]

StartTracking ==
  IF ~geolocation
  THEN /\ toast' = Toast("Geolocation is not supported by this browser.", 0)
       /\ UNCHANGED <<now, mapVars, trailVars, waypointVars, renderVars, trackVars>>
  ELSE /\ BagCardinality(watches) < MaxWatches
       /\ isTracking' = TRUE
       /\ toast' = Toast("GPS tracking started!", 0)
       /\ watches' = watches (+) SetToBag({Closure})
       /\ UNCHANGED <<now, mapVars, trailVars, waypointVars, renderVars,
                      geolocation, mounted, currentPosition, trackUp>>

\* the closure startTracking returns (clearWatch) is dropped by the caller
StopTracking ==
  /\ isTracking' = FALSE
  /\ toast' = Toast("GPS tracking stopped.", 0)
  /\ UNCHANGED <<now, mapVars, trailVars, waypointVars, renderVars,
                 geolocation, mounted, currentPosition, trackUp, watches>>

\* setTrackUp(!trackUp)
ToggleTrackUp ==
  /\ trackUp' = ~trackUp
  /\ toast' = NoToast
  /\ UNCHANGED <<now, mapVars, trailVars, waypointVars, renderVars,
                 geolocation, mounted, currentPosition, isTracking, watches>>

\* position.coords -> Position; heading: position.coords.heading || undefined
NewPosition(fix) ==
  [latitude |-> fix.latitude,
   longitude |-> fix.longitude,
   accuracy |-> fix.accuracy,
   heading |-> IF fix.heading = NoNumber \/ fix.heading = 0 THEN NoNumber ELSE fix.heading]

\* updateUserMarker(position): the value of userMarker.current afterwards
updateUserMarker(position) ==
  IF ~map THEN userMarker
  ELSE [lngLat |-> <<position.longitude, position.latitude>>, onMap |-> TRUE]

\* updateTrailOnMap(points), given points.map(p => [p.longitude, p.latitude]):
\* the values of <<trailSource.current, geometry on the map>> afterwards
updateTrailOnMap(coordinates) ==
  IF ~map \/ Len(coordinates) < 2 THEN <<trailSource, trailData>>
  ELSE IF trailSource # Null
       THEN \* getSource(trailSource.current): gone if the map was rebuilt
            IF trailData # Null THEN <<trailSource, coordinates>>
            ELSE <<trailSource, trailData>>
       ELSE <<<<"current-trail", now>>, coordinates>>

\* the success callback of an open watch (holding closure w) runs with a fix
WatchSuccess(w, fix) ==
  LET newPosition == NewPosition(fix)
      trailPoint == [latitude |-> newPosition.latitude,
                     longitude |-> newPosition.longitude,
                     timestamp |-> now,
                     accuracy |-> newPosition.accuracy]
      drawn == updateTrailOnMap(Append(w.currentTrail, <<trailPoint.longitude, trailPoint.latitude>>))
  IN  /\ w \in BagToSet(watches)
      /\ currentPosition' = newPosition
      /\ userMarker' = updateUserMarker(newPosition)
      /\ IF w.isRecordingTrail
         THEN /\ Len(currentTrail) < MaxTrail
              /\ currentTrail' = Append(currentTrail, trailPoint)
              /\ trailSource' = drawn[1]
              /\ trailData' = drawn[2]
         ELSE UNCHANGED <<currentTrail, trailSource, trailData>>
      /\ IF map
         THEN /\ mapCenter' = <<newPosition.longitude, newPosition.latitude>>
              /\ mapZoom' = TrackingZoom
              /\ mapBearing' = IF w.trackUp /\ newPosition.heading # NoNumber
                               THEN newPosition.heading ELSE mapBearing
         ELSE UNCHANGED <<mapCenter, mapZoom, mapBearing>>
      /\ toast' = NoToast
      /\ UNCHANGED <<now, map, mapStyle, isRecordingTrail, recordedTrails, importedTrails,
                     selectedTrail, reads, waypointVars, selectedTrailLayer, downloads,
                     geolocation, mounted, isTracking, trackUp, watches>>

\* the success callback of a watch left open runs after the component was
\* unmounted.  The state setters have no component to update; the refs are
\* still written: updateUserMarker puts a new marker on the removed map, and
\* updateTrailOnMap, called on the removed map, either throws (ending the
\* callback) or registers its source id.
LateWatchSuccess(w, fix) ==
  LET newPosition == NewPosition(fix)
  IN  /\ ~mounted
      /\ w \in BagToSet(watches)
      /\ userMarker' = IF ~map THEN userMarker
                       ELSE Detached(updateUserMarker(newPosition))
      /\ IF w.isRecordingTrail /\ map /\ Len(w.currentTrail) >= 1 /\ trailSource = Null
         THEN trailSource' \in {Null, <<"current-trail", now>>}
         ELSE UNCHANGED trailSource
      /\ toast' = NoToast
      /\ UNCHANGED <<now, mapVars, trailVars, waypointVars, trailData, selectedTrailLayer,
                     downloads, trackVars>>

\* the error callback of an open watch (holding closure w) runs.  The browser ends a watch
\* whose permission was denied; after a timeout or an unavailable position
\* the watch stays open and later fixes are delivered.
WatchError(w, code) ==
  /\ w \in BagToSet(watches)
  /\ toast' = Toast(GpsError(code), 0)
  /\ isTracking' = FALSE
  /\ watches' = IF code = PERMISSION_DENIED THEN watches (-) SetToBag({w}) ELSE watches
  /\ UNCHANGED <<now, mapVars, trailVars, waypointVars, renderVars,
                 geolocation, mounted, currentPosition, trackUp>>

\* ----------------------------------------------------------- recording
\* setIsRecordingTrail(true) ahead of the position check
StartTrailRecordingFlagFirst ==
  IF currentPosition = Null
  THEN /\ toast' = Toast("GPS location required to start trail recording", 0)
       /\ isRecordingTrail' = TRUE
       /\ UNCHANGED <<now, mapVars, currentTrail, recordedTrails, importedTrails,
                      selectedTrail, reads, waypointVars, renderVars, trackVars>>
  ELSE /\ isRecordingTrail' = TRUE
       /\ currentTrail' = << [latitude |-> currentPosition.latitude,
                              longitude |-> currentPosition.longitude,
                              timestamp |-> now,
                              accuracy |-> currentPosition.accuracy] >>
       /\ toast' = Toast("Trail recording started!", 0)
       /\ UNCHANGED <<now, mapVars, recordedTrails, importedTrails, selectedTrail, reads,
                      waypointVars, renderVars, trackVars>>

StartTrailRecording ==
  IF currentPosition = Null
  THEN /\ toast' = Toast("GPS location required to start trail recording", 0)
       /\ UNCHANGED <<now, mapVars, trailVars, waypointVars, renderVars, trackVars>>
  ELSE /\ isRecordingTrail' = TRUE
       /\ currentTrail' = << [latitude |-> currentPosition.latitude,
                              longitude |-> currentPosition.longitude,
                              timestamp |-> now,
                              accuracy |-> currentPosition.accuracy] >>
       /\ toast' = Toast("Trail recording started!", 0)
       /\ UNCHANGED <<now, mapVars, recordedTrails, importedTrails, selectedTrail, reads,
                      waypointVars, renderVars, trackVars>>

\* `Trail ${n}`
TrailName(n) == <<"Trail", n>>

\* startTime taken from the clock instead of the first point
RecordedTrailStartsNow ==
  [id |-> <<"trail", now>>,
   name |-> TrailName(Len(recordedTrails) + 1),
   points |-> currentTrail,
   startTime |-> now,
   endTime |-> now,
   distance |-> calculateTrailDistance(currentTrail)]

\* the trail stopTrailRecording builds from the buffer
RecordedTrail ==
  [id |-> <<"trail", now>>,
   name |-> TrailName(Len(recordedTrails) + 1),
   points |-> currentTrail,
   startTime |-> currentTrail[1].timestamp,
   endTime |-> now,
   distance |-> calculateTrailDistance(currentTrail)]

\* currentTrail.length < 1
MinTrailPointsOne == 2 - 1

\* fewer points than this and the recording is discarded
MinTrailPoints == 2

StopTrailRecording ==
  IF Len(currentTrail) < MinTrailPoints
  THEN /\ toast' = Toast("Trail too short to save", 0)
       /\ isRecordingTrail' = FALSE
       /\ currentTrail' = <<>>
       /\ UNCHANGED <<now, mapVars, recordedTrails, importedTrails, selectedTrail, reads,
                      waypointVars, renderVars, trackVars>>
  ELSE /\ Len(recordedTrails) < MaxRecorded
       /\ recordedTrails' = Append(recordedTrails, RecordedTrail)
       /\ isRecordingTrail' = FALSE
       /\ currentTrail' = <<>>
       /\ IF map /\ trailSource # Null
          THEN trailSource' = Null /\ trailData' = Null
          ELSE UNCHANGED <<trailSource, trailData>>
       /\ toast' = Toast("Trail saved!", RecordedTrail.name[2])
       /\ UNCHANGED <<now, mapVars, importedTrails, selectedTrail, reads,
                      waypointVars, userMarker, selectedTrailLayer, downloads, trackVars>>

\* -------------------------------------------------------- file import
\* a number as parseFloat / Number returns it
Num(v) == [nan |-> FALSE, v |-> v]
NaN == [nan |-> TRUE, v |-> 0]

\* the strings coordinates are written with in the files of the model
RawStrings == {"", "x", "0", "10", "20", "11", "21"}

parseFloat(str) ==
  CASE str = "0" -> Num(0)
    [] str = "10" -> Num(10)
    [] str = "20" -> Num(20)
    [] str = "11" -> Num(11)
    [] str = "21" -> Num(21)
    [] OTHER -> NaN

\* Number(str): the empty string is 0, a missing element (undefined) is NaN
Number(fields, i) ==
  IF i > Len(fields) THEN NaN
  ELSE IF fields[i] = "" THEN Num(0)
  ELSE parseFloat(fields[i])

\* !isNaN(lat) && !isNaN(lon)
KeptAlsoZero(lat, lon) == ~lat.nan /\ ~lon.nan

\* !isNaN(lat) && !isNaN(lon) && lat !== 0 && lon !== 0
Kept(lat, lon) == ~lat.nan /\ ~lon.nan /\ lat.v # 0 /\ lon.v # 0

\* point.getAttribute(..) || '0': a missing (or empty) attribute reads as '0'
AttrOrZero(attr) == IF attr = "" THEN "0" ELSE attr

\* the TrailPoint pushed for a kept pair
ParsedPoint(lat, lon, time) == [latitude |-> lat.v, longitude |-> lon.v, timestamp |-> time]

\* A document is [wellFormed, trkpts, placemarks, gxCoords]:
\*   trkpts      the trkpt elements: [lat, lon (attributes), time (the parsed
\*               time child, NoNumber where there is none)]
\*   placemarks  the Placemark elements: [kind ("LineString", "Point" or
\*               "none"), tokens]; tokens is the text of the first
\*               coordinates element cut at white space, each token cut at ','
\*   gxCoords    the gx:coord elements of the gx:Track elements, each cut at
\*               white space
\* clock[k] is the wall-clock reading taken for the k-th point pushed;
\* clock[Len(clock)] is the reading taken for the trail id.

\* GPX: every trkpt, in document order
GpxPoints(doc, clock) ==
  LET kept == SelectSeq(doc.trkpts,
                        LAMBDA p : Kept(parseFloat(AttrOrZero(p.lat)),
                                        parseFloat(AttrOrZero(p.lon))))
  IN  [k \in 1..Len(kept) |->
         ParsedPoint(parseFloat(AttrOrZero(kept[k].lat)),
                     parseFloat(AttrOrZero(kept[k].lon)),
                     IF kept[k].time = NoNumber THEN clock[k] ELSE kept[k].time)]

\* the concatenation of a sequence of sequences
RECURSIVE Flatten(_)
Flatten(seqs) == IF seqs = <<>> THEN <<>> ELSE Head(seqs) \o Flatten(Tail(seqs))

\* KML, first strategy: the "lon,lat[,alt]" tokens of every LineString
LineStringPoints(doc, clock) ==
  LET lines == SelectSeq(doc.placemarks, LAMBDA pm : pm.kind = "LineString")
      tokens == Flatten([i \in 1..Len(lines) |-> lines[i].tokens])
      kept == SelectSeq(tokens,
                        LAMBDA coords : /\ Len(coords) >= 2
                                        /\ Kept(parseFloat(coords[2]), parseFloat(coords[1])))
  IN  [k \in 1..Len(kept) |->
         ParsedPoint(parseFloat(kept[k][2]), parseFloat(kept[k][1]), clock[k])]

\* coordText.split(','): the text is not cut at white space here, so the last
\* field of a token and the first field of the next one form one field;
\* parseFloat reads the leading number of a field, and skips leading space
RECURSIVE SplitAtCommas(_)
SplitAtCommas(tokens) ==
  IF tokens = <<>> THEN <<"">>
  ELSE IF Len(tokens) = 1 THEN tokens[1]
  ELSE LET first == tokens[1]
           rest == SplitAtCommas(Tail(tokens))
           joined == IF first[Len(first)] = "" THEN rest[1] ELSE first[Len(first)]
       IN  SubSeq(first, 1, Len(first) - 1) \o <<joined>> \o Tail(rest)

\* KML, second strategy: one coordinate per Placemark, the timestamps spaced
\* by index * 1000 from the reading taken for each
PlacemarkPoints(doc, clock) ==
  LET kept == SelectSeq(doc.placemarks,
                        LAMBDA pm : /\ pm.kind # "none"
                                    /\ Len(SplitAtCommas(pm.tokens)) >= 2
                                    /\ Kept(parseFloat(SplitAtCommas(pm.tokens)[2]),
                                            parseFloat(SplitAtCommas(pm.tokens)[1])))
  IN  [k \in 1..Len(kept) |->
         ParsedPoint(parseFloat(SplitAtCommas(kept[k].tokens)[2]),
                     parseFloat(SplitAtCommas(kept[k].tokens)[1]),
                     clock[k] + (k - 1) * 1000)]

\* KML, third strategy: the "lon lat [alt]" samples of gx:Track
GxTrackPoints(doc, clock) ==
  LET kept == SelectSeq(doc.gxCoords, LAMBDA f : Kept(Number(f, 2), Number(f, 1)))
  IN  [k \in 1..Len(kept) |-> ParsedPoint(Number(kept[k], 2), Number(kept[k], 1), clock[k])]

\* the Placemark strategy is tried ahead of the LineString strategy
KmlPointsPlacemarkFirst(doc, clock) ==
  IF PlacemarkPoints(doc, clock) # <<>> THEN PlacemarkPoints(doc, clock)
  ELSE IF LineStringPoints(doc, clock) # <<>> THEN LineStringPoints(doc, clock)
  ELSE GxTrackPoints(doc, clock)

\* the three strategies, each tried while no point was collected
KmlPoints(doc, clock) ==
  IF LineStringPoints(doc, clock) # <<>> THEN LineStringPoints(doc, clock)
  ELSE IF PlacemarkPoints(doc, clock) # <<>> THEN PlacemarkPoints(doc, clock)
  ELSE GxTrackPoints(doc, clock)

\* the points collected before the length test
ExtractedPoints(doc, fileExtension, clock) ==
  IF fileExtension = ".gpx" THEN GpxPoints(doc, clock)
  ELSE IF fileExtension = ".kml" THEN KmlPoints(doc, clock)
  ELSE <<>>

\* toLowerCase() on the extensions of the model
ToLowerCase(str) ==
  CASE str = "GPX" -> "gpx"
    [] str = "KML" -> "kml"
    [] OTHER -> str

\* a file name is [base, ext]: base "." ext
\* fileName.replace(/\.(gpx|kml)$/i, '')
StripExtension(fileName) ==
  IF ToLowerCase(fileName.ext) \in {"gpx", "kml"}
  THEN [base |-> fileName.base, ext |-> ""]
  ELSE fileName

\* a Trail is built although no point was collected
parseTrailFileNoEmptyTest(doc, fileName, fileExtension, clock) ==
  LET points == ExtractedPoints(doc, fileExtension, clock)
  IN  IF ~doc.wellFormed THEN Null
      ELSE [id |-> <<"imported", clock[Len(clock)]>>,
            name |-> StripExtension(fileName),
            points |-> points,
            startTime |-> IF points = <<>> THEN NoNumber ELSE points[1].timestamp,
            endTime |-> IF points = <<>> THEN NoNumber ELSE points[Len(points)].timestamp,
            distance |-> calculateTrailDistance(points)]

\* endTime taken from the first point
parseTrailFileEndsAtStart(doc, fileName, fileExtension, clock) ==
  LET points == ExtractedPoints(doc, fileExtension, clock)
  IN  IF ~doc.wellFormed THEN Null
      ELSE IF Len(points) = 0 THEN Null
      ELSE [id |-> <<"imported", clock[Len(clock)]>>,
            name |-> StripExtension(fileName),
            points |-> points,
            startTime |-> points[1].timestamp,
            endTime |-> points[1].timestamp,
            distance |-> calculateTrailDistance(points)]

\* parseTrailFile(content, fileName, fileExtension): the Trail, or Null
parseTrailFile(doc, fileName, fileExtension, clock) ==
  LET points == ExtractedPoints(doc, fileExtension, clock)
  IN  IF ~doc.wellFormed THEN Null
      ELSE IF Len(points) = 0 THEN Null
      ELSE [id |-> <<"imported", clock[Len(clock)]>>,
            name |-> StripExtension(fileName),
            points |-> points,
            startTime |-> points[1].timestamp,
            endTime |-> points[Len(points)].timestamp,
            distance |-> calculateTrailDistance(points)]

\* the files the user picks in the sessions of the model
Document(trkpts, placemarks, gxCoords) ==
  [empty |-> FALSE, wellFormed |-> TRUE,
   trkpts |-> trkpts, placemarks |-> placemarks, gxCoords |-> gxCoords]

File(base, ext, content) == [name |-> [base |-> base, ext |-> ext], content |-> content]

Trkpt(lat, lon, time) == [lat |-> lat, lon |-> lon, time |-> time]
Placemark(kind, tokens) == [kind |-> kind, tokens |-> tokens]

SampleFiles ==
  { \* one zero point between two valid points, the second one timed
    File("hike", "gpx", Document(<<Trkpt("10", "20", NoNumber), Trkpt("0", "0", NoNumber),
                                   Trkpt("11", "21", 3)>>, <<>>, <<>>)),
    \* nothing but a zero point and a point without lat attribute
    File("zero", "GPX", Document(<<Trkpt("0", "0", NoNumber), Trkpt("", "20", NoNumber)>>,
                                 <<>>, <<>>)),
    \* an unclosed tag
    File("broken", "gpx", [Document(<<Trkpt("10", "20", NoNumber)>>, <<>>, <<>>)
                              EXCEPT !.wellFormed = FALSE]),
    \* a LineString "10,20,0 11,21,0"
    File("line", "kml", Document(<<>>, <<Placemark("LineString",
                                                   <<<<"10", "20", "0">>, <<"11", "21", "0">>>>)>>,
                                 <<>>)),
    \* two Point placemarks and one without geometry
    File("marks", "kml", Document(<<>>, <<Placemark("Point", <<<<"10", "20", "0">>>>),
                                          Placemark("none", <<>>),
                                          Placemark("Point", <<<<"11", "21">>>>)>>,
                                  <<>>)),
    \* a gx:Track of one sample
    File("track", "KML", Document(<<>>, <<>>, <<<<"10", "20", "0">>>>)),
    \* a KML file whose only coordinate is 0,0
    File("nowhere", "kml", Document(<<>>, <<Placemark("Point", <<<<"0", "0">>>>)>>, <<>>)),
    \* an empty file
    File("blank", "gpx", [Document(<<>>, <<>>, <<>>) EXCEPT !.empty = TRUE]),
    \* not a trail file
    File("notes", "txt", Document(<<>>, <<>>, <<>>)) }

\* '.' + file.name.split('.').pop()?.toLowerCase()
FileExtension(fileName) == IF ToLowerCase(fileName.ext) = "gpx" THEN ".gpx"
                           ELSE IF ToLowerCase(fileName.ext) = "kml" THEN ".kml"
                           ELSE ".other"

\* the user picks a file: the type is validated and the read is started
HandleFileUpload(file) ==
  IF FileExtension(file.name) \notin {".gpx", ".kml"}
  THEN /\ toast' = Toast("Please upload a valid GPX or KML file", 0)
       /\ UNCHANGED <<now, mapVars, trailVars, waypointVars, renderVars, trackVars>>
  ELSE /\ BagCardinality(reads) < MaxReads
       /\ reads' = reads (+) SetToBag({[file |-> file,
                                         fileExtension |-> FileExtension(file.name)]})
       /\ toast' = NoToast
       /\ UNCHANGED <<now, mapVars, isRecordingTrail, currentTrail, recordedTrails,
                      importedTrails, selectedTrail, waypointVars, renderVars, trackVars>>

\* the non-decreasing sequences of n clock readings from the current one on
ClockReadings(n) ==
  { c \in [1..n -> now..MaxClock] : \A i \in 1..(n - 1) : c[i] <= c[i + 1] }

\* the number of elements of a document that may become a point
Candidates(doc) == Len(doc.trkpts) + Len(Flatten([i \in 1..Len(doc.placemarks) |->
                                                   doc.placemarks[i].tokens]))
                   + Len(doc.placemarks) + Len(doc.gxCoords)

\* the collection is replaced by the new trail alone
ReaderOnLoadReplacing(read, clock) ==
  LET trail == parseTrailFile(read.file.content, read.file.name, read.fileExtension, clock)
  IN  /\ read \in BagToSet(reads)
      /\ reads' = reads (-) SetToBag({read})
      /\ IF read.file.content.empty
         THEN UNCHANGED <<now, importedTrails>> /\ toast' = NoToast
         ELSE /\ now' = clock[Len(clock)]
              /\ IF trail # Null
                 THEN /\ Len(importedTrails) < MaxImported
                      /\ importedTrails' = <<trail>>
                      /\ toast' = Toast("Imported trail", Len(trail.points))
                 ELSE /\ importedTrails' = importedTrails
                      /\ toast' = Toast("Failed to parse trail file", 0)
      /\ UNCHANGED <<mapVars, isRecordingTrail, currentTrail, recordedTrails, selectedTrail,
                     waypointVars, renderVars, trackVars>>

\* reader.onload of a read in flight: the file is parsed while the clock runs
\* on (clock), and a Trail is appended to the imported trails
ReaderOnLoad(read, clock) ==
  LET trail == parseTrailFile(read.file.content, read.file.name, read.fileExtension, clock)
  IN  /\ read \in BagToSet(reads)
      /\ reads' = reads (-) SetToBag({read})
      /\ IF read.file.content.empty
         THEN UNCHANGED <<now, importedTrails>> /\ toast' = NoToast
         ELSE /\ now' = clock[Len(clock)]
              /\ IF trail # Null
                 THEN /\ Len(importedTrails) < MaxImported
                      /\ importedTrails' = Append(importedTrails, trail)
                      /\ toast' = Toast("Imported trail", Len(trail.points))
                 ELSE /\ importedTrails' = importedTrails
                      /\ toast' = Toast("Failed to parse trail file", 0)
      /\ UNCHANGED <<mapVars, isRecordingTrail, currentTrail, recordedTrails, selectedTrail,
                     waypointVars, renderVars, trackVars>>

\* reader.onerror of a read in flight
ReaderOnError(read) ==
  /\ read \in BagToSet(reads)
  /\ reads' = reads (-) SetToBag({read})
  /\ toast' = Toast("Failed to read file", 0)
  /\ UNCHANGED <<now, mapVars, isRecordingTrail, currentTrail, recordedTrails,
                 importedTrails, selectedTrail, waypointVars, renderVars, trackVars>>

\* ----------------------------------------------------------- waypoints
\* `Waypoint ${n}`
WaypointName(n) == <<"Waypoint", n>>

\* named by the count before the insertion
NewWaypointZeroBased ==
  [id |-> <<"waypoint", now>>,
   name |-> WaypointName(Len(waypoints)),
   latitude |-> currentPosition.latitude,
   longitude |-> currentPosition.longitude,
   timestamp |-> now]

\* the waypoint addWaypoint builds
NewWaypoint ==
  [id |-> <<"waypoint", now>>,
   name |-> WaypointName(Len(waypoints) + 1),
   latitude |-> currentPosition.latitude,
   longitude |-> currentPosition.longitude,
   timestamp |-> now]

\* addWaypointMarker(waypoint): the value of waypointMarkers.current
\* afterwards.  The marker's click handler closes over waypoint.id and the
\* selectedWaypoint of the render that created it.
addWaypointMarker(waypoint) ==
  IF ~map THEN waypointMarkers
  ELSE Append(waypointMarkers,
              [lngLat |-> <<waypoint.longitude, waypoint.latitude>>,
               onMap |-> TRUE,
               waypointId |-> waypoint.id,
               selectedWaypoint |-> selectedWaypoint,
               highlighted |-> (selectedWaypoint = waypoint.id)])

AddWaypoint ==
  IF currentPosition = Null
  THEN /\ toast' = Toast("Current location not available. Enable GPS tracking first.", 0)
       /\ UNCHANGED <<now, mapVars, trailVars, waypointVars, renderVars, trackVars>>
  ELSE /\ Len(waypoints) < MaxWaypoints
       /\ waypoints' = Append(waypoints, NewWaypoint)
       /\ waypointMarkers' = addWaypointMarker(NewWaypoint)
       /\ toast' = Toast("Added Waypoint", NewWaypoint.name[2])
       /\ UNCHANGED <<now, mapVars, trailVars, selectedWaypoint, renderVars, trackVars>>

\* the ids a caller may name: those addWaypoint can have issued
WaypointIds == { <<"waypoint", t>> : t \in 0..MaxClock }

\* waypoints.findIndex(wp => wp.id === waypointId), counted from 1; NoNumber
\* where findIndex returns -1
findIndex(waypointId) ==
  LET found == { i \in 1..Len(waypoints) : waypoints[i].id = waypointId }
  IN  IF found = {} THEN NoNumber
      ELSE CHOOSE i \in found : \A j \in found : i <= j

\* updateWaypointMarkers(): the value of waypointMarkers.current afterwards.
\* The marker at an index is styled by the waypoint at that index and by
\* the selectedWaypoint of the render the caller belongs to.
updateWaypointMarkers ==
  [index \in 1..Len(waypointMarkers) |->
     IF index <= Len(waypoints)
     THEN [waypointMarkers[index] EXCEPT
             !.highlighted = (selectedWaypoint = waypoints[index].id)]
     ELSE waypointMarkers[index]]

\* the waypoint is flown to (zoom: 16)
WaypointZoom == 16

SelectWaypointOnMap(waypointId) ==
  LET waypointIndex == findIndex(waypointId)
  IN  IF waypointIndex = NoNumber \/ ~map
      THEN /\ toast' = NoToast
           /\ UNCHANGED <<now, mapVars, trailVars, waypointVars, renderVars, trackVars>>
      ELSE /\ selectedWaypoint' = waypointId
           /\ mapCenter' = <<waypoints[waypointIndex].longitude,
                              waypoints[waypointIndex].latitude>>
           /\ mapZoom' = WaypointZoom
           /\ waypointMarkers' = updateWaypointMarkers
           /\ toast' = NoToast
           /\ UNCHANGED <<now, map, mapStyle, mapBearing, trailVars, waypoints,
                          renderVars, trackVars>>

\* the selection is cleared whichever waypoint is deleted
\* the click listener of the marker at a position of waypointMarkers.current;
\* a marker of a removed map has no element on screen to click
MarkerClick(index) ==
  /\ index \in 1..Len(waypointMarkers)
  /\ waypointMarkers[index].onMap
  /\ selectedWaypoint' =
       IF waypointMarkers[index].selectedWaypoint = waypointMarkers[index].waypointId
       THEN Null
       ELSE waypointMarkers[index].waypointId
  /\ toast' = NoToast
  /\ UNCHANGED <<now, mapVars, trailVars, waypoints, waypointMarkers, renderVars, trackVars>>

DeleteWaypointClearsSelection(waypointId) ==
  LET waypointIndex == findIndex(waypointId)
  IN  IF waypointIndex = NoNumber
      THEN /\ toast' = NoToast
           /\ UNCHANGED <<now, mapVars, trailVars, waypointVars, renderVars, trackVars>>
      ELSE /\ waypointMarkers' =
                IF waypointIndex <= Len(waypointMarkers)
                THEN SubSeq(waypointMarkers, 1, waypointIndex - 1)
                     \o SubSeq(waypointMarkers, waypointIndex + 1, Len(waypointMarkers))
                ELSE waypointMarkers
           /\ waypoints' = SelectSeq(waypoints, LAMBDA wp : wp.id # waypointId)
           /\ selectedWaypoint' = Null
           /\ toast' = Toast("Waypoint deleted", 0)
           /\ UNCHANGED <<now, mapVars, trailVars, renderVars, trackVars>>

DeleteWaypoint(waypointId) ==
  LET waypointIndex == findIndex(waypointId)
  IN  IF waypointIndex = NoNumber
      THEN /\ toast' = NoToast
           /\ UNCHANGED <<now, mapVars, trailVars, waypointVars, renderVars, trackVars>>
      ELSE \* the marker at the waypoint's index, where there is one, is
           \* removed from the map and spliced out of the list
           /\ waypointMarkers' =
                IF waypointIndex <= Len(waypointMarkers)
                THEN SubSeq(waypointMarkers, 1, waypointIndex - 1)
                     \o SubSeq(waypointMarkers, waypointIndex + 1, Len(waypointMarkers))
                ELSE waypointMarkers
           /\ waypoints' = SelectSeq(waypoints, LAMBDA wp : wp.id # waypointId)
           /\ selectedWaypoint' = IF selectedWaypoint = waypointId THEN Null
                                  ELSE selectedWaypoint
           /\ toast' = Toast("Waypoint deleted", 0)
           /\ UNCHANGED <<now, mapVars, trailVars, renderVars, trackVars>>

\* ------------------------------------------------- trails on the map
\* the ids a caller may name: those stopTrailRecording and parseTrailFile
\* can have issued
TrailIds == { <<"trail", t>> : t \in 0..MaxClock } \cup { <<"imported", t>> : t \in 0..MaxClock }

\* isImported ? importedTrails : recordedTrails
TrailList(isImported) == IF isImported THEN importedTrails ELSE recordedTrails

\* trailList.find(t => t.id === trailId): the first match, Null if none
FindTrail(trailId, isImported) ==
  LET trailList == TrailList(isImported)
      found == { i \in 1..Len(trailList) : trailList[i].id = trailId }
  IN  IF found = {} THEN Null
      ELSE trailList[CHOOSE i \in found : \A j \in found : i <= j]

\* the LngLatBounds extended by every coordinate: <<west, south, east, north>>
Bounds(coordinates) ==
  LET lngs == { coordinates[i][1] : i \in 1..Len(coordinates) }
      lats == { coordinates[i][2] : i \in 1..Len(coordinates) }
      Min(S) == CHOOSE x \in S : \A y \in S : x <= y
      Max(S) == CHOOSE x \in S : \A y \in S : x >= y
  IN  <<Min(lngs), Min(lats), Max(lngs), Max(lats)>>

\* 'line-color': red for imported, primary for recorded
LineColor(isImported) == IF isImported THEN "#ef4444" ELSE "hsl(var(--primary))"

\* selectTrailOnMap(trailId, isImported).  fitBounds leaves the camera on the
\* trail's bounds, at the zoom the map picks for them.
SelectTrailOnMap(trailId, isImported) ==
  LET trail == FindTrail(trailId, isImported)
      coordinates == Coordinates(trail.points)
  IN  IF trail = Null \/ ~map
      THEN /\ toast' = NoToast
           /\ UNCHANGED <<now, mapVars, trailVars, waypointVars, renderVars, trackVars>>
      ELSE /\ selectedTrail' = trailId
           /\ IF Len(coordinates) = 0
              THEN /\ selectedTrailLayer' = Null
                   /\ toast' = Toast("Trail has no valid coordinates", 0)
                   /\ UNCHANGED <<mapCenter, mapZoom>>
              ELSE /\ selectedTrailLayer' = [coordinates |-> coordinates,
                                             color |-> LineColor(isImported)]
                   /\ mapCenter' = Bounds(coordinates)
                   /\ mapZoom' = NoNumber
                   /\ toast' = Toast("Showing trail", 0)
           /\ UNCHANGED <<now, map, mapStyle, mapBearing, isRecordingTrail, currentTrail,
                          recordedTrails, importedTrails, reads, waypointVars,
                          userMarker, trailSource, trailData, downloads, trackVars>>

\* deleteTrail(trailId, isImported)
DeleteTrail(trailId, isImported) ==
  /\ IF isImported
     THEN /\ importedTrails' = SelectSeq(importedTrails, LAMBDA t : t.id # trailId)
          /\ UNCHANGED recordedTrails
     ELSE /\ recordedTrails' = SelectSeq(recordedTrails, LAMBDA t : t.id # trailId)
          /\ UNCHANGED importedTrails
  /\ IF selectedTrail = trailId
     THEN /\ selectedTrail' = Null
          /\ selectedTrailLayer' = IF map /\ selectedTrailLayer # Null THEN Null
                                   ELSE selectedTrailLayer
     ELSE UNCHANGED <<selectedTrail, selectedTrailLayer>>
  /\ toast' = Toast("Trail deleted", 0)
  /\ UNCHANGED <<now, mapVars, isRecordingTrail, currentTrail, reads, waypointVars,
                 userMarker, trailSource, trailData, downloads, trackVars>>

\* -------------------------------------------------------------- export
\* `${number}` for the coordinates of the model
NumberText(n) ==
  CASE n = 0 -> "0"
    [] n = 10 -> "10"
    [] n = 20 -> "20"
    [] n = 11 -> "11"
    [] n = 21 -> "21"

\* date.toISOString(): the text of an instant, written <<"ISO", ms>>
ToISOString(t) == <<"ISO", t>>

\* date.toISOString().split('T')[0]: the UTC day, counted from 1970-01-01
MsPerDay == 86400000
IsoDay(t) == <<"day", t \div MsPerDay>>

\* the GPX text exportWaypoints writes: one wpt per waypoint
WaypointsGpx ==
  [creator |-> "HikeTracker",
   wpts |-> [i \in 1..Len(waypoints) |->
               [lat |-> NumberText(waypoints[i].latitude),
                lon |-> NumberText(waypoints[i].longitude),
                name |-> waypoints[i].name,
                time |-> ToISOString(waypoints[i].timestamp)]]]

\* a.download = `waypoints-${day}.gpx`; a.click()
WaypointsFile ==
  [download |-> <<"waypoints-", IsoDay(now), ".gpx">>,
   type |-> "application/gpx+xml",
   content |-> WaypointsGpx]

\* a file is written although there is no waypoint
ExportWaypointsNoEmptyTest ==
  /\ Len(downloads) < MaxDownloads
  /\ downloads' = Append(downloads, WaypointsFile)
  /\ toast' = Toast("Waypoints exported as GPX file", 0)
  /\ UNCHANGED <<now, mapVars, trailVars, waypointVars, userMarker, trailSource,
                 trailData, selectedTrailLayer, trackVars>>

ExportWaypoints ==
  IF Len(waypoints) = 0
  THEN /\ toast' = Toast("No waypoints to export", 0)
       /\ UNCHANGED <<now, mapVars, trailVars, waypointVars, renderVars, trackVars>>
  ELSE /\ Len(downloads) < MaxDownloads
       /\ downloads' = Append(downloads, WaypointsFile)
       /\ toast' = Toast("Waypoints exported as GPX file", 0)
       /\ UNCHANGED <<now, mapVars, trailVars, waypointVars, userMarker, trailSource,
                      trailData, selectedTrailLayer, trackVars>>

\* the GPX text exportTrail writes: one trk of one trkseg
TrailGpx(trail) ==
  [creator |-> "HikeTracker",
   trk |-> [name |-> trail.name,
            trkpts |-> [i \in 1..Len(trail.points) |->
                          [lat |-> NumberText(trail.points[i].latitude),
                           lon |-> NumberText(trail.points[i].longitude),
                           time |-> ToISOString(trail.points[i].timestamp)]]]]

\* trail.name.replace(/\s+/g, '-'): `Trail ${n}` becomes `Trail-${n}`; the
\* names taken from the files of the model hold no white space
Hyphenated(name) == IF name[1] = "Trail" THEN <<"Trail-", name[2]>> ELSE name

\* a.download = `${name}-${day}.gpx`; a.click()
TrailFile(trail, isImported) ==
  [download |-> <<IF isImported THEN <<trail.name.base, trail.name.ext>>
                  ELSE Hyphenated(trail.name),
                  "-", IsoDay(trail.startTime), ".gpx">>,
   type |-> "application/gpx+xml",
   content |-> TrailGpx(trail)]

\* exportTrail(trailId, isImported)
ExportTrail(trailId, isImported) ==
  LET trail == FindTrail(trailId, isImported)
  IN  IF trail = Null
      THEN /\ toast' = NoToast
           /\ UNCHANGED <<now, mapVars, trailVars, waypointVars, renderVars, trackVars>>
      ELSE /\ Len(downloads) < MaxDownloads
           /\ downloads' = Append(downloads, TrailFile(trail, isImported))
           /\ toast' = Toast("Trail exported as GPX file", 0)
           /\ UNCHANGED <<now, mapVars, trailVars, waypointVars, userMarker, trailSource,
                          trailData, selectedTrailLayer, trackVars>>

\* ------------------------------------------------------ specifications
\* the position source delivers a fix to an open watch
PositionUpdate == \E w \in BagToSet(watches), fix \in PlainFixes : WatchSuccess(w, fix)

\* the position source reports an error to an open watch
PositionError == \E w \in BagToSet(watches), code \in ErrorCodes : WatchError(w, code)

\* the session of a user who tracks and records and leaves the map style alone
Next ==
  \/ Tick
  \/ StartTracking
  \/ StopTracking
  \/ PositionUpdate
  \/ PositionError
  \/ StartTrailRecording
  \/ StopTrailRecording

Spec == Init /\ [][Next]_vars

\* a style change
ChangeMapStyle == \E style \in {"street", "satellite"} : SetMapStyle(style)

\* the session of a user who tracks and drops waypoints, before and after
\* the map is built
NextAddWaypoints ==
  \/ Tick
  \/ ChangeMapStyle
  \/ StartTracking
  \/ PositionUpdate
  \/ AddWaypoint

SpecAddWaypoints == Init /\ [][NextAddWaypoints]_vars

\* a list entry is clicked
SelectWaypoint == \E waypointId \in WaypointIds : SelectWaypointOnMap(waypointId)

\* the waypoint button is clicked (marker handles of deleted waypoints can
\* pile up in waypointMarkers.current: MaxMarkers caps the list)
DropWaypoint == Len(waypointMarkers) < MaxMarkers /\ AddWaypoint

\* a delete button is clicked
RemoveWaypoint == \E waypointId \in WaypointIds : DeleteWaypoint(waypointId)

\* the session of a user who drops, selects and deletes waypoints
NextWaypoints ==
  \/ Tick
  \/ ChangeMapStyle
  \/ StartTracking
  \/ PositionUpdate
  \/ DropWaypoint
  \/ SelectWaypoint
  \/ RemoveWaypoint

SpecWaypoints == Init /\ [][NextWaypoints]_vars

\* a file that parses, a file without a usable point, and a file of another type
FewFiles == { file \in SampleFiles : file.name.base \in {"hike", "zero", "notes"} }

\* the user picks a file
FileUpload == \E file \in FewFiles : HandleFileUpload(file)

\* a read in flight completes
FileLoaded ==
  \E read \in BagToSet(reads) :
    \E clock \in ClockReadings(Candidates(read.file.content) + 1) : ReaderOnLoad(read, clock)

\* a read in flight fails
FileReadError == \E read \in BagToSet(reads) : ReaderOnError(read)

\* the session of a user who records trails and imports trail files
NextTrails ==
  \/ StartTracking
  \/ PositionUpdate
  \/ StartTrailRecording
  \/ StopTrailRecording
  \/ FileUpload
  \/ FileLoaded
  \/ FileReadError

SpecTrails == Init /\ [][NextTrails]_vars

\* the user picks any of the files
AnyFileUpload == \E file \in SampleFiles : HandleFileUpload(file)

\* the session of a user who imports trail files, several at a time
NextImport ==
  \/ Tick
  \/ AnyFileUpload
  \/ FileLoaded
  \/ FileReadError

SpecImport == Init /\ [][NextImport]_vars

\* the sequences of at most n elements of S
SeqsUpTo(S, n) == UNION { [1..k -> S] : k \in 0..n }

\* trkpt elements: attributes that are missing, not numbers, zero or usable
TrkptChoices ==
  { Trkpt("10", "20", NoNumber), Trkpt("11", "21", NoNumber),
    Trkpt("0", "0", NoNumber), Trkpt("0", "20", NoNumber), Trkpt("10", "0", NoNumber),
    Trkpt("x", "20", NoNumber), Trkpt("10", "x", NoNumber),
    Trkpt("", "20", NoNumber), Trkpt("10", "", NoNumber) }

\* well-formed GPX documents of at most MaxTrkpts track points
GpxDocuments == { Document(trkpts, <<>>, <<>>) : trkpts \in SeqsUpTo(TrkptChoices, MaxTrkpts) }

\* "lon,lat[,alt]" tokens cut at ',': usable, zero, not a number, one field
TokenChoices == { <<"10", "20", "0">>, <<"11", "21">>, <<"0", "0">>, <<"x", "20">>, <<"10">> }

\* Placemark elements: a LineString, a Point, or no geometry
PlacemarkChoices ==
  { Placemark("LineString", tokens) : tokens \in SeqsUpTo(TokenChoices, MaxLineTokens) }
  \cup { Placemark("Point", <<token>>) : token \in TokenChoices }
  \cup { Placemark("none", <<>>) }

\* gx:coord samples cut at white space
GxChoices == { <<"10", "20", "0">>, <<"0", "0", "0">>, <<"11">> }

\* well-formed KML documents
KmlDocuments ==
  { Document(<<>>, placemarks, gxCoords) :
      placemarks \in SeqsUpTo(PlacemarkChoices, MaxPlacemarks),
      gxCoords \in SeqsUpTo(GxChoices, MaxGxCoords) }

\* the files a parse is tried on
ParseFiles ==
  SampleFiles
  \cup { File("gen", "gpx", doc) : doc \in GpxDocuments }
  \cup { File("gen", "kml", doc) : doc \in KmlDocuments }

\* the user picks one of the files in a fresh session
PickDocument ==
  /\ reads = EmptyBag
  /\ importedTrails = <<>>
  /\ toast = NoToast
  /\ \E file \in ParseFiles : HandleFileUpload(file)

\* one file is picked, read and parsed
NextParse ==
  \/ PickDocument
  \/ FileLoaded

SpecParse == Init /\ [][NextParse]_vars

\* the fix of a device that stays where it is
HomeFix == [latitude |-> 10, longitude |-> 20, accuracy |-> 5, heading |-> NoNumber]

\* the position source delivers the same fix again
PositionRepeated == \E w \in BagToSet(watches) : WatchSuccess(w, HomeFix)

\* a file that parses
OneFile == { file \in SampleFiles : file.name.base = "hike" }

\* the user picks the file, once
OneFileUpload ==
  /\ reads = EmptyBag
  /\ importedTrails = <<>>
  /\ \E file \in OneFile : HandleFileUpload(file)

\* the satellite style is picked: the first map is built
PickSatellite == SetMapStyle("satellite")

\* the waypoint button is clicked for the first time
FirstWaypoint == waypoints = <<>> /\ AddWaypoint

\* an entry of one of the two trail lists is clicked
SelectTrail ==
  \E trailId \in TrailIds, isImported \in BOOLEAN : SelectTrailOnMap(trailId, isImported)

\* the session of a user who picks waypoints and trails from the lists
NextSelect ==
  \/ PickSatellite
  \/ StartTracking
  \/ PositionRepeated
  \/ StartTrailRecording
  \/ StopTrailRecording
  \/ OneFileUpload
  \/ FileLoaded
  \/ FirstWaypoint
  \/ SelectWaypoint
  \/ SelectTrail

SpecSelect == Init /\ [][NextSelect]_vars

\* a delete button of one of the two trail lists is clicked
RemoveTrail ==
  \E trailId \in TrailIds, isImported \in BOOLEAN : DeleteTrail(trailId, isImported)

\* the session of a user who records, imports, shows and deletes trails
NextTrailEdit ==
  \/ PickSatellite
  \/ StartTracking
  \/ PositionRepeated
  \/ StartTrailRecording
  \/ StopTrailRecording
  \/ OneFileUpload
  \/ FileLoaded
  \/ SelectTrail
  \/ RemoveTrail

SpecTrailEdit == Init /\ [][NextTrailEdit]_vars

\* an export button of one of the two trail lists is clicked
SaveTrail ==
  \E trailId \in TrailIds, isImported \in BOOLEAN : ExportTrail(trailId, isImported)

\* the session of a user who exports waypoints and trails
NextExport ==
  \/ Tick
  \/ StartTracking
  \/ PositionRepeated
  \/ StartTrailRecording
  \/ StopTrailRecording
  \/ OneFileUpload
  \/ FileLoaded
  \/ FirstWaypoint
  \/ ExportWaypoints
  \/ SaveTrail

SpecExport == Init /\ [][NextExport]_vars

\* the position source delivers a fix, with or without a heading
HeadingUpdate == \E w \in BagToSet(watches), fix \in Fixes : WatchSuccess(w, fix)

\* the session of a user who tracks on the map and switches track-up mode
NextTrackUp ==
  \/ PickSatellite
  \/ StartTracking
  \/ StopTracking
  \/ ToggleTrackUp
  \/ HeadingUpdate

SpecTrackUp == Init /\ [][NextTrackUp]_vars

\* the position source delivers a fix to a watch that outlived the component
LatePosition == \E w \in BagToSet(watches) : LateWatchSuccess(w, HomeFix)

\* the session of a user who tracks, drops a waypoint, and leaves the view
NextTeardown ==
  \/ mounted /\ PickSatellite
  \/ mounted /\ StartTracking
  \/ mounted /\ StopTracking
  \/ mounted /\ PositionRepeated
  \/ mounted /\ PositionError
  \/ mounted /\ FirstWaypoint
  \/ mounted /\ StartTrailRecording
  \/ Unmount
  \/ LatePosition

SpecTeardown == Init /\ [][NextTeardown]_vars

\* ---------------------------------------------------------------- claims
StoppedToast == Toast("GPS tracking stopped.", 0)
TooShortToast == Toast("Trail too short to save", 0)
NoPositionToast == Toast("GPS location required to start trail recording", 0)

\* the session of a user who records a trail with the map on screen
NextLiveTrail ==
  \/ PickSatellite
  \/ StartTracking
  \/ PositionUpdate
  \/ StartTrailRecording
  \/ StopTrailRecording

SpecLiveTrail == Init /\ [][NextLiveTrail]_vars

\* a waypoint marker on the map is clicked
ClickMarker == \E index \in 1..MaxMarkers : MarkerClick(index)

\* the session of a user who selects and deletes waypoints and trails, from
\* the lists and on the map
NextPointers ==
  \/ Tick
  \/ PickSatellite
  \/ StartTracking
  \/ PositionRepeated
  \/ DropWaypoint
  \/ SelectWaypoint
  \/ ClickMarker
  \/ RemoveWaypoint
  \/ OneFileUpload
  \/ FileLoaded
  \/ SelectTrail
  \/ RemoveTrail

SpecPointers == Init /\ [][NextPointers]_vars

\* C1: while a recording session is active, every position update appends
\* exactly one point, carrying the fix's latitude and longitude, to the end of
\* the recording buffer.
C1_UpdateAppendsOnePoint ==
  [][\A w \in BagToSet(watches), fix \in PlainFixes :
       (isRecordingTrail /\ WatchSuccess(w, fix)) =>
         /\ Len(currentTrail') = Len(currentTrail) + 1
         /\ SubSeq(currentTrail', 1, Len(currentTrail)) = currentTrail
         /\ currentTrail'[Len(currentTrail')].latitude = fix.latitude
         /\ currentTrail'[Len(currentTrail')].longitude = fix.longitude]_vars

\* C2: a position update delivered while no recording session is active
\* leaves the recording buffer unchanged.
C2_IdleUpdateKeepsBuffer ==
  [][(~isRecordingTrail /\ PositionUpdate) => currentTrail' = currentTrail]_vars

\* C3: once stopTracking has returned, no position update is processed:
\* current position, user marker and recording buffer stay as they are.
C3_StopTrackingCancels ==
  [][(toast = StoppedToast /\ PositionUpdate) =>
       UNCHANGED <<currentPosition, userMarker, currentTrail>>]_vars

\* C4: once the error callback has run, isTracking is false and no later fix
\* changes the current position.
C4_ErrorEndsStream ==
  [][(\E code \in ErrorCodes : toast = Toast(GpsError(code), 0)) =>
       /\ ~isTracking
       /\ (PositionUpdate => currentPosition' = currentPosition)]_vars

\* C5: stopRecording while recording with fewer than 2 buffered points
\* discards the buffer, returns to Idle, reports "trail too short" and leaves
\* the recorded trails unchanged.
C5_ShortRecordingDiscarded ==
  [][(isRecordingTrail /\ Len(currentTrail) < 2 /\ StopTrailRecording) =>
       /\ currentTrail' = <<>>
       /\ ~isRecordingTrail'
       /\ toast' = TooShortToast
       /\ recordedTrails' = recordedTrails]_vars

\* a short recording has just been discarded
C5_Witness ==
  /\ toast = TooShortToast
  /\ currentPosition # Null
  /\ ~isRecordingTrail
  /\ currentTrail = <<>>
  /\ watches # EmptyBag

C8_StartNeedsPosition ==
  [][(currentPosition = Null /\ StartTrailRecording) =>
       /\ ~isRecordingTrail'
       /\ currentTrail' = <<>>
       /\ UNCHANGED <<now, mapVars, trailVars, waypointVars, renderVars, trackVars>>]_vars

\* startRecording has just been refused while tracking is on and no fix has
\* arrived yet
C8_Witness ==
  /\ toast = NoPositionToast
  /\ currentPosition = Null
  /\ isTracking
  /\ ~isRecordingTrail
  /\ currentTrail = <<>>

\* C9: stopRecording while recording is not active is a no-op: recorded
\* trails, buffer and recording flag unchanged, and nothing reported.
C9_IdleStopIsNoOp ==
  [][(~isRecordingTrail /\ StopTrailRecording) =>
       /\ UNCHANGED <<recordedTrails, currentTrail, isRecordingTrail>>
       /\ toast' = NoToast]_vars

\* C10: addWaypoint called N times in succession with a known position (no
\* deletion in between) yields N waypoints, the i-th named "Waypoint i" and
\* carrying the current position at the time of the i-th call; with no
\* current position addWaypoint leaves the collection unchanged.
C10_WaypointsNamedInOrder ==
  /\ [](\A i \in 1..Len(waypoints) : waypoints[i].name = <<"Waypoint", i>>)
  /\ [][AddWaypoint =>
          IF currentPosition = Null
          THEN waypoints' = waypoints
          ELSE /\ Len(waypoints') = Len(waypoints) + 1
               /\ SubSeq(waypoints', 1, Len(waypoints)) = waypoints
               /\ waypoints'[Len(waypoints')].latitude = currentPosition.latitude
               /\ waypoints'[Len(waypoints')].longitude = currentPosition.longitude]_vars

\* two waypoints have been added, at two different positions
C10_Witness ==
  /\ Len(waypoints) = 2
  /\ toast = Toast("Added Waypoint", 2)
  /\ waypoints[1].latitude # waypoints[2].latitude
  /\ waypoints[2].latitude = currentPosition.latitude

\* C7: every recorded trail has at least 2 points and every imported trail
\* has at least 1 point.
C7_TrailsHavePoints ==
  /\ \A i \in 1..Len(recordedTrails) : Len(recordedTrails[i].points) >= 2
  /\ \A i \in 1..Len(importedTrails) : Len(importedTrails[i].points) >= 1

\* a trail has been recorded, a trail has been imported, and an import that
\* yields no point has just been refused
C7_Witness ==
  /\ recordedTrails # <<>>
  /\ importedTrails # <<>>
  /\ toast = Toast("Failed to parse trail file", 0)

C12_WaypointIdsUnique ==
  \A i, j \in 1..Len(waypoints) : i # j => waypoints[i].id # waypoints[j].id

\* C13: selectWaypoint(id) and selectTrail(id, provenance) set the respective
\* selection pointer to id when an entity with that id exists in the
\* addressed collection; when no such entity exists the call leaves the
\* pointer unchanged.
C13_SelectSetsPointer ==
  [][/\ \A waypointId \in WaypointIds :
          SelectWaypointOnMap(waypointId) =>
            selectedWaypoint' =
              IF \E i \in 1..Len(waypoints) : waypoints[i].id = waypointId
              THEN waypointId ELSE selectedWaypoint
     /\ \A trailId \in TrailIds, isImported \in BOOLEAN :
          SelectTrailOnMap(trailId, isImported) =>
            selectedTrail' =
              IF \E i \in 1..Len(TrailList(isImported)) :
                   TrailList(isImported)[i].id = trailId
              THEN trailId ELSE selectedTrail]_vars

\* C14: deleteTrail(id, provenance) removes the trail with that id only from
\* the collection named by provenance and leaves the other collection
\* unchanged; the trail selection is cleared if the removed trail was the
\* selected one, and is left unchanged when the call removes no trail.
C14_DeleteTrailByProvenance ==
  [][\A trailId \in TrailIds, isImported \in BOOLEAN :
       DeleteTrail(trailId, isImported) =>
         LET removed == \E i \in 1..Len(TrailList(isImported)) :
                          TrailList(isImported)[i].id = trailId
         IN  /\ isImported =>
                  /\ importedTrails' = SelectSeq(importedTrails, LAMBDA t : t.id # trailId)
                  /\ recordedTrails' = recordedTrails
             /\ ~isImported =>
                  /\ recordedTrails' = SelectSeq(recordedTrails, LAMBDA t : t.id # trailId)
                  /\ importedTrails' = importedTrails
             /\ (removed /\ selectedTrail = trailId) => selectedTrail' = Null
             /\ ~removed => selectedTrail' = selectedTrail]_vars

NothingToExportToast == Toast("No waypoints to export", 0)

\* C15: exportWaypoints invoked on an empty waypoint collection reports that
\* there is nothing to export, produces no file, and leaves all session
\* state unchanged.
C15_EmptyExportFails ==
  [][(ExportWaypoints /\ waypoints = <<>>) =>
       /\ toast' = NothingToExportToast
       /\ downloads' = downloads
       /\ UNCHANGED <<now, mapVars, trailVars, waypointVars, renderVars, trackVars>>]_vars

\* the export was refused after a trail file had been exported
C15_Witness ==
  /\ toast = NothingToExportToast
  /\ waypoints = <<>>
  /\ Len(downloads) = 1

\* C16: exportTrail(id, provenance) reports that there is nothing to export,
\* and produces no file, when the collection named by provenance is empty or
\* holds no trail with that id.
C16_MissingTrailExportFails ==
  [][\A trailId \in TrailIds, isImported \in BOOLEAN :
       (/\ ExportTrail(trailId, isImported)
        /\ \A i \in 1..Len(TrailList(isImported)) : TrailList(isImported)[i].id # trailId)
       => (toast' # NoToast /\ downloads' = downloads)]_vars

\* C17: an import whose parse fails (malformed XML, or no usable point after
\* every extraction strategy) leaves the imported and the recorded trails
\* unchanged; an import whose parse succeeds appends exactly one Trail to
\* the end of the imported trails, also when several reads complete one
\* after another.
C17_ImportAppendsOneOrNothing ==
  [][\A read \in BagToSet(reads) :
       \A clock \in ClockReadings(Candidates(read.file.content) + 1) :
         ReaderOnLoad(read, clock) =>
           LET doc == read.file.content
               usable == IF ~doc.wellFormed THEN <<>>
                         ELSE ExtractedPoints(doc, read.fileExtension, clock)
           IN  /\ recordedTrails' = recordedTrails
               /\ IF usable = <<>>
                  THEN importedTrails' = importedTrails
                  ELSE /\ Len(importedTrails') = Len(importedTrails) + 1
                       /\ SubSeq(importedTrails', 1, Len(importedTrails)) = importedTrails
                       /\ importedTrails'[Len(importedTrails')].points = usable]_vars

\* the second of two reads in flight has added a second trail
C17_Witness ==
  /\ Len(importedTrails) = 2
  /\ importedTrails[1].name.base # importedTrails[2].name.base
  /\ toast.msg = "Imported trail"
  /\ reads = EmptyBag

\* the trail the latest import appended
Imported == importedTrails[Len(importedTrails)]

\* <<latitude, longitude>> of every point of a trail
LatLons(trail) ==
  [k \in 1..Len(trail.points) |-> <<trail.points[k].latitude, trail.points[k].longitude>>]

\* the k-th smallest element of a set of numbers
Nth(S, k) == CHOOSE i \in S : Cardinality({ j \in S : j <= i }) = k

\* C18: GPX parsing keeps a track point if and only if both its latitude and
\* its longitude parse to numbers and neither equals zero; the kept points
\* appear in the Trail in document order, so that a document with one (0,0)
\* point and two valid points yields exactly 2 points.
C18_GpxKeepsUsablePoints ==
  [][\A read \in BagToSet(reads) :
       \A clock \in ClockReadings(Candidates(read.file.content) + 1) :
         (/\ ReaderOnLoad(read, clock)
          /\ read.fileExtension = ".gpx"
          /\ read.file.content.wellFormed) =>
           LET trkpts == read.file.content.trkpts
               usable == { i \in 1..Len(trkpts) :
                             /\ ~parseFloat(trkpts[i].lat).nan
                             /\ ~parseFloat(trkpts[i].lon).nan
                             /\ parseFloat(trkpts[i].lat).v # 0
                             /\ parseFloat(trkpts[i].lon).v # 0 }
           IN  IF usable = {} THEN importedTrails' = importedTrails
               ELSE /\ Len(importedTrails') = Len(importedTrails) + 1
                    /\ LatLons(Imported') =
                         [k \in 1..Cardinality(usable) |->
                            <<parseFloat(trkpts[Nth(usable, k)].lat).v,
                              parseFloat(trkpts[Nth(usable, k)].lon).v>>]
                    /\ (read.file.name.base = "hike" =>
                          LatLons(Imported') = << <<10, 20>>, <<11, 21>> >>)]_vars

\* hike.gpx, a (0,0) point between two valid ones, was imported with 2 points
C18_Witness ==
  /\ importedTrails # <<>>
  /\ Imported.name.base = "hike"
  /\ Len(Imported.points) = 2
  /\ toast = Toast("Imported trail", 2)

\* <<latitude, longitude>> of every point of a point list
LatLonsOf(points) == [k \in 1..Len(points) |-> <<points[k].latitude, points[k].longitude>>]

\* the "lon,lat[,alt]" tokens of the LineStrings of a document read as
\* <<latitude, longitude>> = <<second field, first field>>, the usable ones
LineStringLatLons(doc) ==
  LET lines == SelectSeq(doc.placemarks, LAMBDA pm : pm.kind = "LineString")
      tokens == Flatten([i \in 1..Len(lines) |-> lines[i].tokens])
      usable == SelectSeq(tokens, LAMBDA t : /\ Len(t) >= 2
                                             /\ ~parseFloat(t[1]).nan /\ ~parseFloat(t[2]).nan
                                             /\ parseFloat(t[1]).v # 0 /\ parseFloat(t[2]).v # 0)
  IN  [k \in 1..Len(usable) |-> <<parseFloat(usable[k][2]).v, parseFloat(usable[k][1]).v>>]

\* C19: KML parsing tries the LineString coordinates, then one coordinate per
\* Placemark, then gx:Track, in that order, and stops at the first strategy
\* that yields a point: the Trail holds the points of exactly one strategy,
\* and LineString text "lon,lat[,alt]" yields latitude = second field,
\* longitude = first field ("10,20,0 11,21,0" gives (20,10), (21,11)).
C19_KmlFirstStrategyWins ==
  [][\A read \in BagToSet(reads) :
       \A clock \in ClockReadings(Candidates(read.file.content) + 1) :
         (/\ ReaderOnLoad(read, clock)
          /\ read.fileExtension = ".kml"
          /\ read.file.content.wellFormed) =>
           LET doc == read.file.content
               fromLines == LineStringLatLons(doc)
               fromPlacemarks == LatLonsOf(PlacemarkPoints(doc, clock))
               fromTracks == LatLonsOf(GxTrackPoints(doc, clock))
               expected == IF fromLines # <<>> THEN fromLines
                           ELSE IF fromPlacemarks # <<>> THEN fromPlacemarks
                           ELSE fromTracks
           IN  /\ IF expected = <<>> THEN importedTrails' = importedTrails
                  ELSE /\ Len(importedTrails') = Len(importedTrails) + 1
                       /\ LatLons(Imported') = expected
               /\ (read.file.name.base = "line" =>
                     /\ Len(importedTrails') = Len(importedTrails) + 1
                     /\ LatLons(Imported') = << <<20, 10>>, <<21, 11>> >>)]_vars

\* line.kml was imported: (lat, lon) = (20, 10) and (21, 11)
C19_Witness ==
  /\ importedTrails # <<>>
  /\ Imported.name.base = "line"
  /\ LatLons(Imported) = << <<20, 10>>, <<21, 11>> >>

\* the spacing of the synthetic timestamps, in milliseconds
OneSecond == 1000

\* C20: when a KML document is parsed through the Placemark fallback, the
\* points are in Placemark order and the timestamp of each point is exactly
\* 1000 ms after that of the point before it, whatever the wall clock does
\* during the parse.
C20_PlacemarkTimestampsOneSecondApart ==
  [][\A read \in BagToSet(reads) :
       \A clock \in ClockReadings(Candidates(read.file.content) + 1) :
         (/\ ReaderOnLoad(read, clock)
          /\ read.fileExtension = ".kml"
          /\ read.file.content.wellFormed
          /\ LineStringLatLons(read.file.content) = <<>>
          /\ PlacemarkPoints(read.file.content, clock) # <<>>) =>
           /\ Len(importedTrails') = Len(importedTrails) + 1
           /\ LatLons(Imported') = LatLonsOf(PlacemarkPoints(read.file.content, clock))
           /\ \A k \in 1..(Len(Imported'.points) - 1) :
                Imported'.points[k + 1].timestamp - Imported'.points[k].timestamp = OneSecond]_vars

\* C21: a successfully parsed Trail has its points in extraction order, its
\* start time equal to its first point's timestamp, its end time equal to its
\* last point's timestamp, its distance equal to the track distance of its
\* points, and as name the file name without the trailing .gpx/.kml
\* extension; parsing fails when no strategy collected a point.
C21_ParsedTrailFields ==
  [][\A read \in BagToSet(reads) :
       \A clock \in ClockReadings(Candidates(read.file.content) + 1) :
         (ReaderOnLoad(read, clock) /\ read.file.content.wellFormed) =>
           LET points == ExtractedPoints(read.file.content, read.fileExtension, clock)
           IN  IF points = <<>>
               THEN /\ importedTrails' = importedTrails
                    /\ toast' \in {NoToast, Toast("Failed to parse trail file", 0)}
               ELSE /\ Len(importedTrails') = Len(importedTrails) + 1
                    /\ Imported'.points = points
                    /\ Imported'.startTime = points[1].timestamp
                    /\ Imported'.endTime = points[Len(points)].timestamp
                    /\ Imported'.distance = calculateTrailDistance(points)
                    /\ Imported'.name.base = read.file.name.base
                    /\ Imported'.name.ext = ""
                    /\ read.file.name.ext \in {"gpx", "GPX", "kml", "KML"}]_vars

\* hike.gpx was parsed: two points 155941 m apart, the last one timed 3
C21_Witness ==
  /\ importedTrails # <<>>
  /\ Imported.name = [base |-> "hike", ext |-> ""]
  /\ Imported.startTime = Imported.points[1].timestamp
  /\ Imported.endTime = 3
  /\ Imported.startTime # Imported.endTime
  /\ Imported.distance = 155941

\* C22: tearing down the view cancels every active position subscription and
\* releases the rendering resources the component created: once the
\* component is unmounted no watch is open (no position callback can run) and
\* no marker or trail overlay of the component is left on a map.
C22_TeardownReleases ==
  ~mounted =>
    /\ watches = EmptyBag
    /\ userMarker = Null \/ ~userMarker.onMap
    /\ \A i \in 1..Len(waypointMarkers) : ~waypointMarkers[i].onMap
    /\ trailData = Null
    /\ selectedTrailLayer = Null

\* C23: on every position update the map bearing is set to the fix's heading
\* exactly when track-up mode is enabled at the time the update is processed
\* and the fix carries a heading in [0,360), heading 0 included; a toggle of
\* track-up while tracking is running takes effect on the next update.
C23_BearingFollowsTrackUp ==
  [][\A w \in BagToSet(watches), fix \in Fixes :
       (map /\ WatchSuccess(w, fix)) =>
         mapBearing' = IF trackUp /\ fix.heading # NoNumber THEN fix.heading
                       ELSE mapBearing]_vars

\* the distance between the i-th point of a sequence and the next one
Leg(points, i) ==
  getDistanceBetweenPoints(points[i].latitude, points[i].longitude,
                           points[i + 1].latitude, points[i + 1].longitude)

\* the sum of the first n legs of a sequence
RECURSIVE LegSum(_, _)
LegSum(points, n) == IF n = 0 THEN 0 ELSE LegSum(points, n - 1) + Leg(points, n)

C25_DrawnPathIsBuffer ==
  [][\A w \in BagToSet(watches), fix \in PlainFixes :
       (/\ map
        /\ isRecordingTrail
        /\ WatchSuccess(w, fix)
        /\ Len(currentTrail') = Len(currentTrail) + 1)
       => trailData' = Coordinates(currentTrail')]_vars

\* C26: the waypoint markers correspond 1:1 to the waypoints: the marker
\* list is as long as the waypoint collection and the marker at index i sits
\* at the coordinates of waypoint i (the current-position marker is the one
\* handle userMarker, so there is never more than one on the map).
C26_MarkersMatchWaypoints ==
  /\ Len(waypointMarkers) = Len(waypoints)
  /\ \A i \in 1..Len(waypoints) :
       i <= Len(waypointMarkers) =>
         waypointMarkers[i].lngLat = <<waypoints[i].longitude, waypoints[i].latitude>>

\* C27: the selected waypoint id is null or the id of a waypoint of the
\* collection, and the selected trail id is null or the id of a recorded or
\* imported trail.
C27_SelectionsNeverDangle ==
  /\ \/ selectedWaypoint = Null
     \/ \E i \in 1..Len(waypoints) : waypoints[i].id = selectedWaypoint
  /\ \/ selectedTrail = Null
     \/ \E i \in 1..Len(recordedTrails) : recordedTrails[i].id = selectedTrail
     \/ \E i \in 1..Len(importedTrails) : importedTrails[i].id = selectedTrail

\* C28: recording active implies the buffer holds at least one point, and
\* recording inactive implies the buffer is empty.
C28_FlagMatchesBuffer ==
  /\ isRecordingTrail => Len(currentTrail) >= 1
  /\ ~isRecordingTrail => currentTrail = <<>>

\* C29: at most one geolocation watch is open at any time.
C29_AtMostOneWatch == BagCardinality(watches) <= 1

\* C30: no two recorded trails share an id and no two imported trails share
\* an id.
C30_TrailIdsUnique ==
  /\ \A i, j \in 1..Len(recordedTrails) :
       recordedTrails[i].id = recordedTrails[j].id => i = j
  /\ \A i, j \in 1..Len(importedTrails) :
       importedTrails[i].id = importedTrails[j].id => i = j

====
